---- MODULE Spec2Model ----
(***************************************************************************)
(* Travel expense bot: the ledger store (bot/database.py), the rate cache  *)
(* (bot/currency.py) and the add-expense / edit-expense command handlers   *)
(* (bot/commands.py) that combine them.                                    *)
(*                                                                         *)
(* Money is a Python float in the source.  It is modelled as an exact      *)
(* rational [n, d] in lowest terms, so that division by a rate, halving    *)
(* and multiplication are computed, not assumed.                           *)
(***************************************************************************)
EXTENDS Integers, Sequences, FiniteSets, TLC

VARIABLES
    data,          \* ExpenseDatabase.data: [expenses, next_id]
    exported,      \* the dict handed out by export_data()['data'], or NoExport
    aliased,       \* TRUE while `exported` is the very object self.data
    issued,        \* what get_next_id returned, in order, since self.data was installed
    db_file,       \* content of data/expenses.json
    disk,          \* what a write to data/expenses.json does at present
    rates,         \* CurrencyConverter.rates
    last_updated,  \* CurrencyConverter.last_updated
    rates_file,    \* content of data/exchange_rates.json
    now,           \* datetime.now(), in hours
    pc,            \* per handler: where the coroutine is suspended
    cmd,           \* per handler: the command and its arguments
    loc,           \* per handler: its local variables
    last           \* the operation that returned last, with its result

storeVars == <<data, exported, aliased, issued, db_file, disk>>
rateVars  == <<rates, last_updated, rates_file>>
procVars  == <<pc, cmd, loc>>
vars == <<data, exported, aliased, issued, db_file, disk, rates, last_updated,
          rates_file, now, pc, cmd, loc, last>>

(***************************************************************************)
(* Bounds of the model.                                                    *)
(***************************************************************************)
MaxId == 3
MaxTime == 5
MaxCmdId == 2
MaxDocs == 1
MaxAttached == 2

(***************************************************************************)
(* Rational arithmetic standing in for Python floats.                      *)
(***************************************************************************)
RECURSIVE GCD(_, _)
GCD(a, b) == IF b = 0 THEN a ELSE GCD(b, a % b)

Abs(x) == IF x < 0 THEN -x ELSE x

Rat(n, d) ==
    LET g == GCD(Abs(n), Abs(d))
        s == IF d < 0 THEN -1 ELSE 1
    IN  [n |-> (s * n) \div g, d |-> (s * d) \div g]

Num(k) == [n |-> k, d |-> 1]
Zero == Num(0)
RMul(a, b) == Rat(a.n * b.n, a.d * b.d)
RDiv(a, b) == Rat(a.n * b.d, a.d * b.n)
RAdd(a, b) == Rat(a.n * b.d + b.n * a.d, a.d * b.d)
RLeq(a, b) == a.n * b.d <= b.n * a.d

(***************************************************************************)
(* Enumerations of commands.py and the string values of the model.         *)
(***************************************************************************)
CITIES == {"Beijing", "Shanghai"}
CATEGORIES == {"Food", "Transportation"}
PAYERS == {"Sunil", "Shirin", "Couple"}
CURRENCIES == {"RMB", "GBP", "AED", "USD", "EUR"}
RateCodes == {"GBP", "AED", "USD", "EUR"}

\* None and "" are both falsy in Python; one value stands for both.
NoStr == ""

(***************************************************************************)
(* Dates are strings "YYYY-MM-DD".  A string is modelled as the sequence   *)
(* of its characters, a digit as its value and '-' as -1 (it sorts before  *)
(* every digit in ASCII), and compared as Python compares str.             *)
(***************************************************************************)
Dash == 0 - 1
D2(k) == <<k \div 10, k % 10>>
IsoDate(m, d) == <<2, 0, 2, 5, Dash>> \o D2(m) \o <<Dash>> \o D2(d)
NoDate == <<>>

RECURSIVE StrLess(_, _)
StrLess(s, t) ==
    IF t = <<>> THEN FALSE
    ELSE IF s = <<>> THEN TRUE
    ELSE IF Head(s) # Head(t) THEN Head(s) < Head(t)
    ELSE StrLess(Tail(s), Tail(t))

StrLeq(s, t) == s = t \/ StrLess(s, t)

(***************************************************************************)
(* Ledger store: bot/database.py.  Each method is an operator from the     *)
(* store dict (and the arguments) to the dict afterwards, the value        *)
(* returned, and whether the method called save_data().  The store-level   *)
(* timestamps data['created_at'] and data['last_updated'] are read by no   *)
(* method modelled here and are left out of the dict.                      *)
(***************************************************************************)
EmptyData == [expenses |-> <<>>, next_id |-> 1]

(***************************************************************************)
(* The ledger file.  save_data() opens it with mode 'w', which truncates   *)
(* it, and json.dump writes the document piece by piece; whatever is       *)
(* raised on the way is caught and printed.  A write either goes through,  *)
(* or open() raises and the file is as it was, or the dump raises and the  *)
(* file is left with a prefix of the document (possibly nothing).          *)
(***************************************************************************)
AbsentLedger == [kind |-> "absent"]
PartialLedger == [kind |-> "partial"]
JsonLedger(d) == [kind |-> "json", data |-> d]

DiskStates == {"ok", "open_fails", "dump_fails"}

save_data(d, file, dsk) ==
    CASE dsk = "ok" -> JsonLedger(d)
      [] dsk = "open_fails" -> file
      [] dsk = "dump_fails" -> PartialLedger

\* load_data: the document of the file, or a new empty store, saved at
\* once, when the file is missing or json.load rejects it.
load_data(file, dsk) ==
    IF file.kind = "json" THEN [data |-> file.data, db_file |-> file]
    ELSE [data |-> EmptyData, db_file |-> save_data(EmptyData, file, dsk)]

NoExpense == [none |-> TRUE]

get_next_id_stuck(d) == [data |-> d, ret |-> d.next_id, save |-> FALSE]

get_next_id(d) ==
    [data |-> [d EXCEPT !.next_id = @ + 1], ret |-> d.next_id, save |-> FALSE]

add_expense(d, e) ==
    [data |-> [d EXCEPT !.expenses = Append(@, e)], ret |-> TRUE, save |-> TRUE]

Matches(d, id) == {i \in 1..Len(d.expenses) : d.expenses[i].id = id}

FirstMatch(d, id) == CHOOSE i \in Matches(d, id) : \A j \in Matches(d, id) : i <= j

get_expense_by_id(d, id) ==
    IF Matches(d, id) = {} THEN NoExpense ELSE d.expenses[FirstMatch(d, id)]

\* for key, value in updates.items(): expense[key] = value
Overwrite(e, updates) ==
    [k \in DOMAIN e \cup DOMAIN updates |->
        IF k \in DOMAIN updates THEN updates[k] ELSE e[k]]

update_expense_all(d, id, updates) ==
    IF Matches(d, id) = {} THEN [data |-> d, ret |-> FALSE, save |-> FALSE]
    ELSE [data |-> [d EXCEPT !.expenses =
                      [i \in 1..Len(@) |-> Overwrite(@[i], updates)]],
          ret |-> TRUE, save |-> TRUE]

update_expense_miss_saves(d, id, updates) ==
    IF Matches(d, id) = {} THEN [data |-> d, ret |-> FALSE, save |-> TRUE]
    ELSE [data |-> [d EXCEPT !.expenses[FirstMatch(d, id)] = Overwrite(@, updates)],
          ret |-> TRUE, save |-> TRUE]

update_expense(d, id, updates) ==
    IF Matches(d, id) = {} THEN [data |-> d, ret |-> FALSE, save |-> FALSE]
    ELSE [data |-> [d EXCEPT !.expenses[FirstMatch(d, id)] = Overwrite(@, updates)],
          ret |-> TRUE, save |-> TRUE]

KeepOthers(exps, id) == SelectSeq(exps, LAMBDA e : e.id # id)

delete_expense_keep(d, id) ==
    [data |-> d, ret |-> Matches(d, id) # {}, save |-> Matches(d, id) # {}]

delete_expense(d, id) ==
    LET kept == KeepOthers(d.expenses, id)
    IN  [data |-> [d EXCEPT !.expenses = kept],
         ret |-> Len(kept) < Len(d.expenses),
         save |-> Len(kept) < Len(d.expenses)]

\* add_document_to_expense: the first record with the id gets the document
\* appended to its 'documents' list, which is created if it is missing.
add_document_to_expense(d, id, doc) ==
    IF Matches(d, id) = {} THEN [data |-> d, ret |-> FALSE, save |-> FALSE]
    ELSE LET i == FirstMatch(d, id)
             e == d.expenses[i]
             docs == IF "documents" \in DOMAIN e THEN e.documents ELSE <<>>
         IN  [data |-> [d EXCEPT !.expenses[i] =
                          Overwrite(e, [documents |-> Append(docs, doc)])],
              ret |-> TRUE, save |-> TRUE]

\* delete_document: the first record with the id that has a 'documents'
\* list loses the documents of that filename; True whether or not it had one.
WithDocuments(d, id) == {i \in Matches(d, id) : "documents" \in DOMAIN d.expenses[i]}

delete_document(d, id, filename) ==
    IF WithDocuments(d, id) = {} THEN [data |-> d, ret |-> FALSE, save |-> FALSE]
    ELSE LET i == CHOOSE k \in WithDocuments(d, id) :
                      \A j \in WithDocuments(d, id) : k <= j
         IN  [data |-> [d EXCEPT !.expenses[i].documents =
                          SelectSeq(@, LAMBDA doc : doc.filename # filename)],
              ret |-> TRUE, save |-> TRUE]

(***************************************************************************)
(* get_expenses: the filter loop, then list.sort(key=date, reverse=True),  *)
(* which is stable: records with equal dates keep their relative order.    *)
(***************************************************************************)
PassesExclusive(e, city, category, start_date, end_date) ==
    /\ ~(city # NoStr /\ e.city # city)
    /\ ~(category # NoStr /\ e.category # category)
    /\ ~(start_date # NoDate /\ StrLeq(e.date, start_date))
    /\ ~(end_date # NoDate /\ StrLeq(end_date, e.date))

Passes(e, city, category, start_date, end_date) ==
    /\ ~(city # NoStr /\ e.city # city)
    /\ ~(category # NoStr /\ e.category # category)
    /\ ~(start_date # NoDate /\ StrLess(e.date, start_date))
    /\ ~(end_date # NoDate /\ StrLess(end_date, e.date))

RECURSIVE InsertDescFront(_, _)
InsertDescFront(s, e) ==
    IF s = <<>> THEN <<e>>
    ELSE IF StrLeq(Head(s).date, e.date) THEN <<e>> \o s
    ELSE <<Head(s)>> \o InsertDescFront(Tail(s), e)

\* Position at which e goes into the descending run s, behind its equals.
RECURSIVE InsertDesc(_, _)
InsertDesc(s, e) ==
    IF s = <<>> THEN <<e>>
    ELSE IF StrLess(Head(s).date, e.date) THEN <<e>> \o s
    ELSE <<Head(s)>> \o InsertDesc(Tail(s), e)

RECURSIVE SortByDateDesc(_)
SortByDateDesc(s) ==
    IF s = <<>> THEN <<>>
    ELSE InsertDesc(SortByDateDesc(SubSeq(s, 1, Len(s) - 1)), s[Len(s)])

get_expenses(d, city, category, start_date, end_date) ==
    SortByDateDesc(SelectSeq(d.expenses,
        LAMBDA e : Passes(e, city, category, start_date, end_date)))

(***************************************************************************)
(* export_data returns the dict self.data itself (no copy); import_data    *)
(* installs the dict it is given; clear_all_data installs a new dict.      *)
(***************************************************************************)
NoExport == [none |-> TRUE]

export_data(d) == d

import_data_records_only(d) ==
    [data |-> [d EXCEPT !.next_id = 1], ret |-> TRUE, save |-> TRUE]

import_data(d) == [data |-> d, ret |-> TRUE, save |-> TRUE]

clear_all_data_keeps_counter(d) ==
    [data |-> [d EXCEPT !.expenses = <<>>], ret |-> TRUE, save |-> TRUE]

clear_all_data(d) == [data |-> EmptyData, ret |-> TRUE, save |-> TRUE]

(***************************************************************************)
(* get_database_stats: totals with sum(), the two breakdowns built by a    *)
(* loop over the records, 'date_range' only when there is a record.        *)
(***************************************************************************)
RECURSIVE RSum(_)
RSum(s) == IF s = <<>> THEN Zero ELSE RAdd(Head(s), RSum(Tail(s)))

Column(exps, key) == [i \in 1..Len(exps) |-> exps[i][key]]

Breakdown(exps, key) ==
    [v \in {exps[i][key] : i \in 1..Len(exps)} |->
        LET of_v == SelectSeq(exps, LAMBDA e : e[key] = v)
        IN  [count |-> Len(of_v), total_rmb |-> RSum(Column(of_v, "total_rmb"))]]

MinDate(exps) ==
    CHOOSE x \in {exps[i].date : i \in 1..Len(exps)} :
        \A i \in 1..Len(exps) : StrLeq(x, exps[i].date)

MaxDate(exps) ==
    CHOOSE x \in {exps[i].date : i \in 1..Len(exps)} :
        \A i \in 1..Len(exps) : StrLeq(exps[i].date, x)

RECURSIVE CountDocuments(_)
CountDocuments(exps) ==
    IF exps = <<>> THEN 0
    ELSE (IF "documents" \in DOMAIN Head(exps) THEN Len(Head(exps).documents) ELSE 0)
         + CountDocuments(Tail(exps))

get_database_stats_needs_records(d) ==
    IF d.expenses = <<>> THEN [raised |-> TRUE]
    ELSE [total_expenses |-> Len(d.expenses),
          categories |-> Breakdown(d.expenses, "category"),
          cities |-> Breakdown(d.expenses, "city")]

get_database_stats(d) ==
    [total_expenses |-> Len(d.expenses),
     total_amount_rmb |-> RSum(Column(d.expenses, "total_rmb")),
     sunil_total_gbp |-> RSum(Column(d.expenses, "sunil_gbp")),
     shirin_total_aed |-> RSum(Column(d.expenses, "shirin_aed")),
     next_id |-> d.next_id,
     categories |-> Breakdown(d.expenses, "category"),
     cities |-> Breakdown(d.expenses, "city"),
     total_documents |-> CountDocuments(d.expenses)]
        @@ (IF d.expenses # <<>>
            THEN [date_range |-> [earliest |-> MinDate(d.expenses),
                                  latest |-> MaxDate(d.expenses)]]
            ELSE <<>>)

(***************************************************************************)
(* Rate cache: bot/currency.py.  A rates dict is a function from a subset  *)
(* of the currency codes to factors.                                       *)
(***************************************************************************)
NoRates == <<>>

\* rates.get(code, default)
RGet(r, code, dflt) == IF code \in DOMAIN r THEN r[code] ELSE dflt

\* The literals 0.11, 0.52, 0.14, 0.13 of currency.py and commands.py.
DefaultRate(code) ==
    CASE code = "GBP" -> Rat(11, 100)
      [] code = "AED" -> Rat(52, 100)
      [] code = "USD" -> Rat(14, 100)
      [] code = "EUR" -> Rat(13, 100)

DefaultRates == [code \in RateCodes |-> DefaultRate(code)]

\* The literals 9.09, 1.92, 7.14, 7.69 used by add_expense for a zero rate.
FallbackToRmb(code) ==
    CASE code = "GBP" -> Rat(909, 100)
      [] code = "AED" -> Rat(192, 100)
      [] code = "USD" -> Rat(714, 100)
      [] code = "EUR" -> Rat(769, 100)

NoTime == 0 - 1      \* last_updated is None
BadTime == 0 - 2     \* last_updated is a string fromisoformat rejects

StaleHours == 4

should_update_rates_day(lu, t) ==
    IF lu = NoTime THEN TRUE
    ELSE IF lu = BadTime THEN TRUE
    ELSE t - lu > 24

should_update_rates(lu, t) ==
    IF lu = NoTime THEN TRUE
    ELSE IF lu = BadTime THEN TRUE
    ELSE t - lu > StaleHours

AbsentFile == [kind |-> "absent"]
CorruptFile == [kind |-> "corrupt"]
JsonFile(r, lu) == [kind |-> "json", rates |-> r, last_updated |-> lu]

\* save_rates: the file is rewritten with the held rates and last_updated.
save_rates(r, lu) == JsonFile(r, lu)

\* set_default_rates
set_default_rates(t) ==
    [rates |-> DefaultRates, last_updated |-> t,
     rates_file |-> save_rates(DefaultRates, t)]

\* __init__ followed by load_rates
load_rates(file, t) ==
    CASE file.kind = "absent" ->
            [rates |-> NoRates, last_updated |-> NoTime, rates_file |-> file]
      [] file.kind = "json" ->
            [rates |-> file.rates, last_updated |-> file.last_updated,
             rates_file |-> file]
      [] file.kind = "corrupt" -> set_default_rates(t)

\* The dict built from a 200 response: each code from the response, else
\* from the held rates, else the default literal.
ExtractRates(rates_data, held) ==
    [code \in RateCodes |->
        RGet(rates_data, code, RGet(held, code, DefaultRate(code)))]

\* A remote answer: a 200 with a rates mapping, another status, or an
\* exception (network error, timeout after 10 s, body that is not JSON).
Ok200(rates_data) == [kind |-> "ok", rates |-> rates_data]
HttpError == [kind |-> "status"]
RequestException == [kind |-> "exception"]
\* requests.get(url, timeout=10) gave up: requests.exceptions.Timeout
Timeout == [kind |-> "timeout"]

\* fetch_live_rates, lines 67-91: the backup request is made when the
\* primary one did not return from the 'if response.status_code == 200' branch.
PrimaryFailedAlways(resp) == TRUE

PrimaryFailed(resp) == resp.kind # "ok"

(***************************************************************************)
(* Conversion and split as the command handlers compute them:              *)
(* bot/commands.py, add_expense and edit_expense.                          *)
(***************************************************************************)
None == "<None>"
NoAmount == [none |-> TRUE]

ToRmbAddTimes(amount, currency, r) ==
    IF currency \in RateCodes
    THEN RMul(amount, RGet(r, currency, DefaultRate(currency)))
    ELSE amount

\* add_expense, lines 150-169: 1 / rate, or the literal when the rate is 0.
ToRmbAdd(amount, currency, r) ==
    IF currency \in RateCodes
    THEN LET rate == RGet(r, currency, DefaultRate(currency))
         IN  IF rate.n # 0
             THEN RMul(amount, RDiv(Num(1), rate))
             ELSE RMul(amount, FallbackToRmb(currency))
    ELSE amount

\* add_expense, lines 172-187
SharesAddUneven(amount_rmb, payer, r) ==
    CASE payer = "Couple" ->
            [sunil_rmb |-> RDiv(amount_rmb, Num(2)),
             shirin_rmb |-> amount_rmb,
             sunil_gbp |-> RMul(RDiv(amount_rmb, Num(2)), RGet(r, "GBP", DefaultRate("GBP"))),
             shirin_aed |-> RMul(amount_rmb, RGet(r, "AED", DefaultRate("AED")))]
      [] payer = "Sunil" ->
            [sunil_rmb |-> amount_rmb, shirin_rmb |-> Zero,
             sunil_gbp |-> RMul(amount_rmb, RGet(r, "GBP", DefaultRate("GBP"))),
             shirin_aed |-> Zero]
      [] OTHER ->
            [sunil_rmb |-> Zero, shirin_rmb |-> amount_rmb,
             sunil_gbp |-> Zero,
             shirin_aed |-> RMul(amount_rmb, RGet(r, "AED", DefaultRate("AED")))]

SharesAdd(amount_rmb, payer, r) ==
    CASE payer = "Couple" ->
            [sunil_rmb |-> RDiv(amount_rmb, Num(2)),
             shirin_rmb |-> RDiv(amount_rmb, Num(2)),
             sunil_gbp |-> RMul(RDiv(amount_rmb, Num(2)), RGet(r, "GBP", DefaultRate("GBP"))),
             shirin_aed |-> RMul(RDiv(amount_rmb, Num(2)), RGet(r, "AED", DefaultRate("AED")))]
      [] payer = "Sunil" ->
            [sunil_rmb |-> amount_rmb, shirin_rmb |-> Zero,
             sunil_gbp |-> RMul(amount_rmb, RGet(r, "GBP", DefaultRate("GBP"))),
             shirin_aed |-> Zero]
      [] OTHER ->
            [sunil_rmb |-> Zero, shirin_rmb |-> amount_rmb,
             sunil_gbp |-> Zero,
             shirin_aed |-> RMul(amount_rmb, RGet(r, "AED", DefaultRate("AED")))]

\* add_expense, lines 189-207: the record handed to the store, from the
\* converted amount and the shares computed before.
ExpenseDict(c, id, t, amount_rmb, sh) ==
    [id |-> id, city |-> c.city, activity |-> c.activity,
     category |-> c.category, date |-> c.date,
     original_amount |-> c.amount, original_currency |-> c.currency,
     total_rmb |-> amount_rmb, payer |-> c.payer,
     sunil_rmb |-> sh.sunil_rmb, shirin_rmb |-> sh.shirin_rmb,
     sunil_gbp |-> sh.sunil_gbp, shirin_aed |-> sh.shirin_aed,
     notes |-> IF c.notes = None THEN NoStr ELSE c.notes,
     documents |-> <<>>, created_at |-> t]

\* add_expense, lines 171-207
SplitAndBuild(c, r, id, t, amount_rmb) ==
    ExpenseDict(c, id, t, amount_rmb, SharesAdd(amount_rmb, c.payer, r))

\* add_expense, lines 149-207
BuildExpense(c, r, id, t) ==
    SplitAndBuild(c, r, id, t, ToRmbAdd(c.amount, c.currency, r))

\* add_expense, line 210: self.db.add_expense(expense)
AddResult(got, e, added) ==
    [data |-> added.data, id |-> got.ret, expense |-> e,
     ret |-> added.ret, save |-> added.save]

AddBuilt(got, e) == AddResult(got, e, add_expense(got.data, e))

\* add_expense, lines 189-210: get_next_id, build, add_expense.
AddWithId(got, c, r, t) == AddBuilt(got, BuildExpense(c, r, got.ret, t))

AddBody(d, c, r, t) == AddWithId(get_next_id(d), c, r, t)

\* edit_expense, lines 1016-1029: the fields given, amount aside.
Opt(key, value) == IF value = None THEN <<>> ELSE (key :> value)

PlainUpdates(c) ==
    Opt("activity", c.activity) @@ Opt("category", c.category)
        @@ Opt("city", c.city) @@ Opt("payer", c.payer)
        @@ (IF c.date = NoDate THEN <<>> ELSE ("date" :> c.date))
        @@ Opt("notes", c.notes)

\* edit_expense, line 1034: currency or expense['original_currency']
UpdateCurrency(c, expense) ==
    IF c.currency # None THEN c.currency ELSE expense.original_currency

\* edit_expense, lines 1038-1051: amount / rate; a zero rate raises
\* ZeroDivisionError, which the handler's except clause turns into a message.
ToRmbEdit(amount, currency, r) ==
    IF currency \in RateCodes
    THEN LET rate == RGet(r, currency, DefaultRate(currency))
         IN  IF rate.n = 0 THEN [raised |-> TRUE]
             ELSE [raised |-> FALSE, value |-> RDiv(amount, rate)]
    ELSE [raised |-> FALSE, value |-> amount]

\* edit_expense, lines 1054-1066
SharesEdit(amount_rmb, payer, r) ==
    LET sunil_rmb == CASE payer = "Couple" -> RDiv(amount_rmb, Num(2))
                       [] payer = "Sunil" -> amount_rmb
                       [] OTHER -> Zero
        shirin_rmb == CASE payer = "Couple" -> RDiv(amount_rmb, Num(2))
                        [] payer = "Sunil" -> Zero
                        [] OTHER -> amount_rmb
    IN  [sunil_rmb |-> sunil_rmb, shirin_rmb |-> shirin_rmb,
         sunil_gbp |-> RMul(sunil_rmb, RGet(r, "GBP", DefaultRate("GBP"))),
         shirin_aed |-> RMul(shirin_rmb, RGet(r, "AED", DefaultRate("AED")))]

\* edit_expense, lines 1053-1077: updates.update({...}) for a given amount.
\* `expense` is the record object fetched at line 965, read again here.
AmountUpdatesTotalOnly(c, updates, update_currency, expense, amount_rmb, r) ==
    updates @@ [original_amount |-> c.amount,
                original_currency |-> update_currency,
                total_rmb |-> amount_rmb]

\* edit_expense, lines 1068-1077
UpdatesWithShares(c, updates, update_currency, amount_rmb, sh) ==
    [original_amount |-> c.amount,
     original_currency |-> update_currency,
     total_rmb |-> amount_rmb,
     sunil_rmb |-> sh.sunil_rmb, sunil_gbp |-> sh.sunil_gbp,
     shirin_rmb |-> sh.shirin_rmb, shirin_aed |-> sh.shirin_aed] @@ updates

AmountUpdates(c, updates, update_currency, expense, amount_rmb, r) ==
    UpdatesWithShares(c, updates, update_currency, amount_rmb,
        SharesEdit(amount_rmb,
                   IF "payer" \in DOMAIN updates THEN updates["payer"]
                   ELSE expense.payer,
                   r))

(***************************************************************************)
(* Reports by person: /spending-summary with grouping "person"             *)
(* (bot/commands.py) and /chart-spending by-person (bot/charts.py).        *)
(***************************************************************************)
\* create_spending_summary_embed, lines 703-714
convert_rmb_to_target(amount_rmb, target_currency, r) ==
    IF target_currency \in RateCodes
    THEN RMul(amount_rmb, RGet(r, target_currency, DefaultRate(target_currency)))
    ELSE amount_rmb

\* create_spending_summary_embed, lines 733-742: the three fields shown.
SummaryFields(sunil_total, shirin_total, target_currency, r) ==
    [sunil |-> convert_rmb_to_target(sunil_total, target_currency, r),
     shirin |-> convert_rmb_to_target(shirin_total, target_currency, r),
     combined |-> convert_rmb_to_target(RAdd(sunil_total, shirin_total),
                                        target_currency, r)]

create_spending_summary_embed(expenses, target_currency, r) ==
    SummaryFields(RSum(Column(expenses, "sunil_rmb")),
                  RSum(Column(expenses, "shirin_rmb")), target_currency, r)

\* create_spending_by_person_chart, lines 115-123: the key read from a record.
AmountKey(currency) ==
    CASE currency = "GBP" -> "amount_gbp"
      [] currency = "AED" -> "amount_aed"
      [] OTHER -> "amount_rmb"

\* person_totals[name] = person_totals.get(name, 0) + amount
Credit(person_totals, name, amount) ==
    [n \in DOMAIN person_totals \cup {name} |->
        IF n \notin DOMAIN person_totals THEN amount
        ELSE IF n = name THEN RAdd(person_totals[n], amount)
        ELSE person_totals[n]]

\* lines 125-132: one record credited to the display names.
CreditExpense(person_totals, payer, amount) ==
    IF payer = "Couple"
    THEN Credit(Credit(person_totals, "Shir", RDiv(amount, Num(2))),
                "Bubba", RDiv(amount, Num(2)))
    ELSE Credit(person_totals, IF payer = "Sunil" THEN "Bubba" ELSE payer, amount)

\* lines 112-132: the loop; reading a key a record lacks raises KeyError.
RECURSIVE PersonTotals(_, _, _)
PersonTotals(expenses, key, person_totals) ==
    IF expenses = <<>> THEN [raised |-> FALSE, person_totals |-> person_totals]
    ELSE IF key \notin DOMAIN Head(expenses)
    THEN [raised |-> TRUE, error |-> key]
    ELSE PersonTotals(Tail(expenses), key,
                      CreditExpense(person_totals, Head(expenses).payer,
                                    Head(expenses)[key]))

create_spending_by_person_chart(expenses, currency) ==
    PersonTotals(expenses, AmountKey(currency), <<>>)

(***************************************************************************)
(* State changes shared by the actions.                                    *)
(***************************************************************************)
Procs == {1, 2}

NoCmd == [name |-> "none"]
NoLoc == [none |-> TRUE]

\* A mutation of the dict self.data in place: an exported reference to the
\* same dict sees it.  Where the method goes on to save_data(), the file is
\* written as the disk allows.
StoreStep(newdata, save) ==
    /\ data' = newdata
    /\ exported' = IF aliased THEN newdata ELSE exported
    /\ aliased' = aliased
    /\ db_file' = IF save THEN save_data(newdata, db_file, disk) ELSE db_file
    /\ disk' = disk

Retire(p) ==
    /\ pc' = [pc EXCEPT ![p] = "idle"]
    /\ cmd' = [cmd EXCEPT ![p] = NoCmd]
    /\ loc' = [loc EXCEPT ![p] = NoLoc]

\* The record object edit_expense fetched at line 965, as it is now.
Fetched(l) ==
    IF Matches(data, l.expense_id) # {} THEN get_expense_by_id(data, l.expense_id)
    ELSE l.expense

(***************************************************************************)
(* The part of a command handler that runs once get_rates() has returned   *)
(* r.  gr records what that get_rates() call did.                          *)
(***************************************************************************)
\* add_expense, line 210 onwards: res is what the store did.
Added(res, gr) ==
    /\ StoreStep(res.data, res.save)
    /\ issued' = Append(issued, res.id)
    /\ last' = [op |-> "add", ok |-> res.ret, id |-> res.id,
                expense |-> res.expense, gr |-> gr]

FinishAdd(p, c, r, gr) == Added(AddBody(data, c, r, now), gr)

\* edit_expense, line 1087 onwards: res is what update_expense did.
Updated(c, res, gr) ==
    /\ StoreStep(res.data, res.save)
    /\ issued' = issued
    /\ last' = [op |-> "edit", ok |-> res.ret, why |-> "updated",
                id |-> c.expense_id, cmd |-> c, gr |-> gr]

\* edit_expense, lines 1038-1087: conv is the conversion of the amount.
Converted(c, l, r, gr, conv) ==
    IF conv.raised
    THEN /\ UNCHANGED storeVars
         /\ last' = [op |-> "edit", ok |-> FALSE, why |-> "raised",
                     id |-> c.expense_id, cmd |-> c, gr |-> gr]
    ELSE Updated(c,
                 update_expense(data, c.expense_id,
                     AmountUpdates(c, l.updates, l.update_currency,
                                   Fetched(l), conv.value, r)),
                 gr)

FinishEdit(p, c, l, r, gr) ==
    Converted(c, l, r, gr, ToRmbEdit(c.amount, l.update_currency, r))

\* The records spending_summary listed at line 663, as they are now.
Listed(l) ==
    [i \in 1..Len(l.expenses) |->
        IF Matches(data, l.expenses[i].id) # {}
        THEN get_expense_by_id(data, l.expenses[i].id)
        ELSE l.expenses[i]]

\* spending_summary, lines 677-681
FinishSummary(c, expenses, r, gr) ==
    /\ UNCHANGED storeVars
    /\ last' = [op |-> "summary", ok |-> TRUE, currency |-> c.currency,
                expenses |-> expenses,
                ret |-> create_spending_summary_embed(expenses, c.currency, r),
                gr |-> gr]

\* get_rate_info, lines 155-161
get_rate_info(r, lu) == [rates |-> r, last_updated |-> lu]

\* /exchange-rates, lines 545-546: get_rate_info() reads the cache as soon
\* as update_rates() has returned.
FinishExchangeRates(gr) ==
    /\ UNCHANGED storeVars
    /\ last' = [op |-> "exchange_rates",
                ret |-> get_rate_info(rates', last_updated'), gr |-> gr]

Finish(p, c, l, r, gr) ==
    /\ Retire(p)
    /\ CASE c.name = "add" -> FinishAdd(p, c, r, gr)
         [] c.name = "edit" -> FinishEdit(p, c, l, r, gr)
         [] c.name = "summary" -> FinishSummary(c, Listed(l), r, gr)
         [] c.name = "exchange_rates" -> FinishExchangeRates(gr)
         [] OTHER -> /\ UNCHANGED storeVars
                     /\ last' = [op |-> c.name, ret |-> r, gr |-> gr]

\* What one get_rates() / update_rates() call did: the snapshot and the
\* time it started with, whether it found the snapshot stale, the
\* fetch_live_rates() calls it made, the sources those contacted, whether
\* each answered 200, the rates of the 200 answer, the value update_rates()
\* returned and the mapping get_rates() returned.
NoAnswer == [none |-> TRUE]

NoFetch ==
    [stale |-> FALSE, attempts |-> 0, contacted |-> <<>>, oks |-> <<>>,
     answer |-> NoAnswer, success |-> TRUE,
     before |-> rates, lu |-> last_updated, at |-> now, ret |-> rates]

Fetch(l, success, ret) ==
    [stale |-> TRUE, attempts |-> l.attempts, contacted |-> l.contacted,
     oks |-> l.oks, answer |-> l.answer,
     success |-> success, before |-> l.before, lu |-> l.lu, at |-> l.at,
     ret |-> ret]

(***************************************************************************)
(* get_rates() / update_rates(): if the snapshot is stale the handler is   *)
(* suspended on the primary request, otherwise it goes on at once.         *)
(***************************************************************************)
CallGetRates(p, c, l) ==
    IF should_update_rates(last_updated, now)
    THEN /\ pc' = [pc EXCEPT ![p] = "primary"]
         /\ cmd' = [cmd EXCEPT ![p] = c]
         /\ loc' = [loc EXCEPT ![p] =
                      l @@ [before |-> rates, lu |-> last_updated, at |-> now,
                            attempts |-> 1, contacted |-> <<"primary">>,
                            oks |-> <<>>, answer |-> NoAnswer]]
         /\ UNCHANGED <<storeVars, rateVars, last>>
    ELSE /\ UNCHANGED rateVars
         /\ Finish(p, c, l, rates, NoFetch)

\* fetch_live_rates, lines 67-82 and 100-114: a 200 answer replaces the
\* rates, stamps last_updated and saves.
InstallUnstamped(p, rates_data) ==
    LET new == ExtractRates(rates_data, rates)
        l == [loc[p] EXCEPT !.oks = Append(@, TRUE), !.answer = rates_data]
    IN  /\ rates' = new
        /\ last_updated' = last_updated
        /\ rates_file' = save_rates(new, last_updated)
        /\ Finish(p, cmd[p], l, new, Fetch(l, TRUE, new))

Install(p, rates_data) ==
    LET new == ExtractRates(rates_data, rates)
        l == [loc[p] EXCEPT !.oks = Append(@, TRUE), !.answer = rates_data]
    IN  /\ rates' = new
        /\ last_updated' = now
        /\ rates_file' = save_rates(new, now)
        /\ Finish(p, cmd[p], l, new, Fetch(l, TRUE, new))

PrimaryDone(p, resp) ==
    /\ pc[p] = "primary"
    /\ UNCHANGED now
    /\ IF ~ PrimaryFailed(resp)
       THEN Install(p, resp.rates)
       ELSE /\ pc' = [pc EXCEPT ![p] = "backup"]
            /\ loc' = [loc EXCEPT ![p].contacted = Append(@, "backup"),
                                  ![p].oks = Append(@, resp.kind = "ok")]
            /\ UNCHANGED <<cmd, storeVars, rateVars, last>>

BackupDoneRetry(p, resp) ==
    /\ pc[p] = "backup"
    /\ UNCHANGED now
    /\ IF resp.kind = "ok"
       THEN Install(p, resp.rates)
       ELSE /\ loc' = [loc EXCEPT ![p].contacted = <<"primary", "backup", "backup">>]
            /\ UNCHANGED <<pc, cmd, storeVars, rateVars, last>>

BackupDone(p, resp) ==
    /\ pc[p] = "backup"
    /\ UNCHANGED now
    /\ IF resp.kind = "ok"
       THEN Install(p, resp.rates)
       ELSE LET l == [loc[p] EXCEPT !.oks = Append(@, FALSE)]
            IN  /\ UNCHANGED rateVars
                /\ Finish(p, cmd[p], l, rates, Fetch(l, FALSE, rates))

(***************************************************************************)
(* The command handlers up to their first suspension.                      *)
(***************************************************************************)
Reject(c, why) ==
    /\ last' = [op |-> c.name, ok |-> FALSE, why |-> why, cmd |-> c]
    /\ UNCHANGED <<storeVars, rateVars, procVars>>

BeginAddUnchecked(p, c) == CallGetRates(p, c, [kind |-> "add"])

\* /add-expense, lines 83-147
BeginAdd(p, c) ==
    IF RLeq(c.amount, Zero) THEN Reject(c, "amount")
    ELSE CallGetRates(p, c, [kind |-> "add"])

\* /edit-expense, lines 949-1037 and, without an amount, 1079-1087
BeginEdit(p, c) ==
    LET expense == get_expense_by_id(data, c.expense_id)
        updates == PlainUpdates(c)
    IN  IF expense = NoExpense THEN Reject(c, "notfound")
        ELSE IF c.amount # NoAmount /\ RLeq(c.amount, Zero) THEN Reject(c, "amount")
        ELSE IF c.amount # NoAmount
        THEN CallGetRates(p, c, [kind |-> "edit", expense_id |-> c.expense_id,
                                 expense |-> expense, updates |-> updates,
                                 update_currency |-> UpdateCurrency(c, expense)])
        ELSE IF updates = <<>> THEN Reject(c, "nochanges")
        ELSE /\ Updated(c, update_expense(data, c.expense_id, updates), NoFetch)
             /\ UNCHANGED <<rateVars, procVars>>

\* /spending-summary grouped by person, lines 640-674
Summarise(p, c, expenses) ==
    IF expenses = <<>> THEN Reject(c, "empty")
    ELSE CallGetRates(p, c, [kind |-> "summary", expenses |-> expenses])

BeginSummary(p, c) ==
    Summarise(p, c, get_expenses(data, c.city, NoStr, c.start_date, c.end_date))

\* get_rates() and update_rates() called on their own: /exchange-rates,
\* on_ready
BeginRates(p, c) == CallGetRates(p, c, [kind |-> "rates"])

Begin(p, c) ==
    /\ pc[p] = "idle"
    /\ UNCHANGED now
    /\ CASE c.name = "add" -> data.next_id <= MaxId /\ BeginAdd(p, c)
         [] c.name = "edit" -> BeginEdit(p, c)
         [] c.name = "summary" -> BeginSummary(p, c)
         [] OTHER -> BeginRates(p, c)

Tick ==
    /\ now < MaxTime
    /\ now' = now + 1
    /\ UNCHANGED <<storeVars, rateVars, procVars, last>>

(***************************************************************************)
(* Calls made on the store directly (bot/database.py).                     *)
(***************************************************************************)
DbGetNextId ==
    /\ data.next_id <= MaxId
    /\ LET res == get_next_id(data)
       IN  /\ StoreStep(res.data, res.save)
           /\ issued' = Append(issued, res.ret)
           /\ last' = [op |-> "next_id", ret |-> res.ret]
    /\ UNCHANGED <<rateVars, procVars, now>>

DbUpdate(id, updates) ==
    /\ LET res == update_expense(data, id, updates)
       IN  /\ StoreStep(res.data, res.save)
           /\ last' = [op |-> "update", id |-> id, updates |-> updates,
                       ok |-> res.ret]
    /\ UNCHANGED <<issued, rateVars, procVars, now>>

DbDelete(id) ==
    /\ LET res == delete_expense(data, id)
       IN  /\ StoreStep(res.data, res.save)
           /\ last' = [op |-> "delete", id |-> id, ok |-> res.ret]
    /\ UNCHANGED <<issued, rateVars, procVars, now>>

DbList(f) ==
    /\ last' = [op |-> "list", filters |-> f,
                ret |-> get_expenses(data, f.city, f.category,
                                     f.start_date, f.end_date)]
    /\ UNCHANGED <<storeVars, rateVars, procVars, now>>

DbExport ==
    /\ exported' = export_data(data)
    /\ aliased' = TRUE
    /\ last' = [op |-> "export", before |-> data]
    /\ UNCHANGED <<data, issued, db_file, disk, rateVars, procVars, now>>

DbClear ==
    /\ LET res == clear_all_data(data)
       IN  /\ data' = res.data
           /\ db_file' = save_data(res.data, db_file, disk)
           /\ last' = [op |-> "clear", ok |-> res.ret,
                       counter |-> data.next_id,
                       after_export |-> last.op = "export",
                       saved |-> IF last.op = "export" THEN last.before
                                 ELSE NoExport]
    /\ aliased' = FALSE
    /\ issued' = <<>>
    /\ UNCHANGED <<exported, disk, rateVars, procVars, now>>

\* import_data({'data': <the dict export_data returned>, ...})
DbImport ==
    /\ exported # NoExport
    /\ LET res == import_data(exported)
       IN  /\ data' = res.data
           /\ db_file' = save_data(res.data, db_file, disk)
           /\ last' = [op |-> "import", ok |-> res.ret,
                       round_trip |-> last.op = "clear" /\ last.after_export,
                       saved |-> IF last.op = "clear" THEN last.saved
                                 ELSE NoExport]
    /\ aliased' = TRUE
    /\ issued' = <<>>
    /\ UNCHANGED <<exported, disk, rateVars, procVars, now>>

\* Every record with the id has fewer than n documents.
DocsBelow(id, n) ==
    \A i \in Matches(data, id) : Len(data.expenses[i].documents) < n

DbAddDocument(id, doc) ==
    /\ LET res == add_document_to_expense(data, id, doc)
       IN  /\ StoreStep(res.data, res.save)
           /\ last' = [op |-> "add_document", id |-> id, ok |-> res.ret]
    /\ UNCHANGED <<issued, rateVars, procVars, now>>

DbDeleteDocument(id, filename) ==
    /\ LET res == delete_document(data, id, filename)
       IN  /\ StoreStep(res.data, res.save)
           /\ last' = [op |-> "remove_document", id |-> id,
                       filename |-> filename, ok |-> res.ret]
    /\ UNCHANGED <<issued, rateVars, procVars, now>>

DbStats ==
    /\ last' = [op |-> "stats", after_clear |-> last.op = "clear",
                ret |-> get_database_stats(data)]
    /\ UNCHANGED <<storeVars, rateVars, procVars, now>>

\* /chart-spending by-person, lines 2553-2618: the handler's except clause
\* turns an exception of the chart generator into a message.
Charted(c, expenses) ==
    IF expenses = <<>> THEN Reject(c, "empty")
    ELSE /\ last' = [op |-> "chart", ok |-> TRUE, currency |-> c.currency,
                     expenses |-> expenses,
                     ret |-> create_spending_by_person_chart(expenses, c.currency)]
         /\ UNCHANGED <<storeVars, rateVars, procVars>>

ChartSpending(c) ==
    /\ Charted(c, get_expenses(data, c.city, NoStr, c.start_date, c.end_date))
    /\ UNCHANGED now

\* The disk starts or stops refusing writes to the ledger file.
DiskChange(dsk) ==
    /\ dsk # disk
    /\ disk' = dsk
    /\ UNCHANGED <<data, exported, aliased, issued, db_file, rateVars,
                   procVars, now, last>>

\* The bot is stopped and started again: ExpenseDatabase() and
\* CurrencyConverter() are constructed from the two files.
Restart ==
    /\ \A p \in Procs : pc[p] = "idle"
    /\ LET l == load_data(db_file, disk)
       IN  /\ data' = l.data
           /\ db_file' = l.db_file
    /\ exported' = NoExport
    /\ aliased' = FALSE
    /\ issued' = <<>>
    /\ LET c == load_rates(rates_file, now)
       IN  /\ rates' = c.rates
           /\ last_updated' = c.last_updated
           /\ rates_file' = c.rates_file
    /\ last' = [op |-> "restart", memory |-> data, file |-> db_file]
    /\ UNCHANGED <<disk, procVars, now>>

(***************************************************************************)
(* Inputs.                                                                 *)
(***************************************************************************)
Jan09 == IsoDate(1, 9)
Jan10 == IsoDate(1, 10)
Feb01 == IsoDate(2, 1)

AddCmd(city, category, date, amount, currency, payer) ==
    [name |-> "add", city |-> city, activity |-> "visit", category |-> category,
     date |-> date, amount |-> amount, currency |-> currency, payer |-> payer,
     notes |-> None]

EditCmd(id, amount, currency, payer, city, notes) ==
    [name |-> "edit", expense_id |-> id, amount |-> amount, currency |-> currency,
     activity |-> None, category |-> None, city |-> city, payer |-> payer,
     date |-> NoDate, notes |-> notes]

StoreAdds ==
    { AddCmd("Beijing", "Food", Jan09, Num(100), "RMB", "Sunil"),
      AddCmd("Shanghai", "Food", Jan10, Num(100), "RMB", "Sunil"),
      AddCmd("Beijing", "Transportation", Feb01, Num(100), "RMB", "Couple") }

StoreUpdates == { [notes |-> "late", date |-> Jan10] }

Ids == 1..(MaxId + 1)

Filter(city, category, start_date, end_date) ==
    [city |-> city, category |-> category,
     start_date |-> start_date, end_date |-> end_date]

Filters ==
    { Filter(NoStr, NoStr, NoDate, NoDate),
      Filter("Beijing", NoStr, NoDate, NoDate),
      Filter(NoStr, "Food", Jan09, NoDate),
      Filter(NoStr, NoStr, Jan10, Jan10),
      Filter(NoStr, NoStr, NoDate, Jan10),
      Filter("Shanghai", "Food", Jan09, Feb01) }

(***************************************************************************)
(* Construction: ExpenseDatabase() on a missing ledger file, which it      *)
(* creates, and CurrencyConverter() on the rate file found.                *)
(***************************************************************************)
InitWith(file, t) ==
    /\ disk = "ok"
    /\ LET l == load_data(AbsentLedger, "ok")
       IN  /\ data = l.data
           /\ db_file = l.db_file
    /\ exported = NoExport
    /\ aliased = FALSE
    /\ issued = <<>>
    /\ now = t
    /\ LET c == load_rates(file, t)
       IN  /\ rates = c.rates
           /\ last_updated = c.last_updated
           /\ rates_file = c.rates_file
    /\ pc = [p \in Procs |-> "idle"]
    /\ cmd = [p \in Procs |-> NoCmd]
    /\ loc = [p \in Procs |-> NoLoc]
    /\ last = [op |-> "init", file |-> file]

\* The store on its own: the rate file was saved by set_default_rates just
\* before, so get_rates() answers without a fetch.
InitStore == InitWith(JsonFile(DefaultRates, 0), 0)

NextIds ==
    \/ DbGetNextId
    \/ \E c \in StoreAdds : Begin(1, c)
    \/ \E id \in Ids, u \in StoreUpdates : DbUpdate(id, u)
    \/ \E id \in Ids : DbDelete(id)

SpecIds == InitStore /\ [][NextIds]_vars

NextStore ==
    \/ DbGetNextId
    \/ \E c \in StoreAdds : Begin(1, c)
    \/ \E id \in Ids, u \in StoreUpdates : DbUpdate(id, u)
    \/ \E id \in Ids : DbDelete(id)
    \/ \E f \in Filters : DbList(f)
    \/ DbClear
    \/ DbStats

SpecStore == InitStore /\ [][NextStore]_vars

BackupAdds ==
    { AddCmd("Beijing", "Food", Jan09, Num(100), "RMB", "Sunil"),
      AddCmd("Shanghai", "Food", Jan10, Num(100), "RMB", "Couple") }

NextBackup ==
    \/ \E c \in BackupAdds : Begin(1, c)
    \/ \E id \in Ids : DbDelete(id)
    \/ DbExport
    \/ DbClear
    \/ DbImport

SpecBackup == InitStore /\ [][NextBackup]_vars

(***************************************************************************)
(* The store and its file on a disk that may refuse writes, across         *)
(* restarts of the bot.                                                    *)
(***************************************************************************)
DurableAdds == { AddCmd("Beijing", "Food", Jan09, Num(100), "RMB", "Sunil") }

DurableIds == {1, 2}

Documents == { [filename |-> "receipt.jpg"] }

NextDurable ==
    \/ \E c \in DurableAdds : data.next_id \in DurableIds /\ Begin(1, c)
    \/ \E id \in DurableIds, u \in StoreUpdates : DbUpdate(id, u)
    \/ \E id \in DurableIds : DbDelete(id)
    \/ \E id \in DurableIds, doc \in Documents :
          DocsBelow(id, MaxDocs) /\ DbAddDocument(id, doc)
    \/ \E id \in DurableIds, doc \in Documents : DbDeleteDocument(id, doc.filename)
    \/ \E dsk \in DiskStates : DiskChange(dsk)
    \/ Restart

SpecDurable == InitStore /\ [][NextDurable]_vars

(***************************************************************************)
(* Documents attached to records: /upload-document and /delete-document.   *)
(* The same file name can be uploaded to a record more than once.          *)
(***************************************************************************)
DocFiles == { [filename |-> "receipt.jpg"], [filename |-> "ticket.pdf"] }

NextDocs ==
    \/ \E c \in DurableAdds : data.next_id \in DurableIds /\ Begin(1, c)
    \/ \E id \in DurableIds, doc \in DocFiles :
          DocsBelow(id, MaxAttached) /\ DbAddDocument(id, doc)
    \/ \E id \in DurableIds, doc \in DocFiles : DbDeleteDocument(id, doc.filename)

SpecDocs == InitStore /\ [][NextDocs]_vars

(***************************************************************************)
(* The command handlers with the rate cache, one command at a time.        *)
(***************************************************************************)
LiveRates ==
    [code \in RateCodes |->
        CASE code = "GBP" -> Rat(1, 2)
          [] code = "AED" -> Rat(1, 4)
          [] OTHER -> DefaultRate(code)]

\* A 200 answer that lacks three of the codes and carries a zero factor.
PartialRates == [code \in {"GBP"} |-> Zero]

Responses == {Ok200(LiveRates), Ok200(PartialRates), HttpError, RequestException}

CmdAdds ==
    { AddCmd("Beijing", "Food", Jan09, Num(100), "RMB", "Sunil"),
      AddCmd("Beijing", "Food", Jan09, Num(100), "GBP", "Couple"),
      AddCmd("Beijing", "Food", Jan09, Num(100), "AED", "Shirin"),
      AddCmd("Beijing", "Food", Jan09, Zero, "RMB", "Sunil"),
      AddCmd("Beijing", "Food", Jan09, Num(0 - 5), "GBP", "Couple") }

\* The edits are aimed at the first record; the later ones stand by.
CmdEditIds == {1}

CmdEdits ==
    { EditCmd(id, a[1], a[2], a[3], a[4], a[5]) :
        id \in CmdEditIds,
        a \in { <<Num(50), "RMB", None, None, None>>,
                <<Num(50), None, None, None, None>>,
                <<Num(50), "GBP", "Shirin", None, None>>,
                <<NoAmount, None, "Couple", None, None>>,
                <<NoAmount, "GBP", None, None, None>>,
                <<NoAmount, None, None, "Shanghai", "late">>,
                <<NoAmount, None, None, None, None>>,
                <<Zero, None, None, None, None>>,
                <<Num(0 - 5), "GBP", "Couple", None, None>> } }

\* The bot starts StaleHours + 1 hours after time 0, on a rate file that is
\* missing or was saved at time 0 or 1.
CmdFiles == { AbsentFile, JsonFile(DefaultRates, 0), JsonFile(DefaultRates, 1) }

InitCmds == \E file \in CmdFiles : InitWith(file, StaleHours + 1)

CmdResponses == Responses

NextCmds ==
    \/ \E c \in CmdAdds : data.next_id <= MaxCmdId /\ Begin(1, c)
    \/ \E c \in CmdEdits : Begin(1, c)
    \/ \E resp \in CmdResponses : PrimaryDone(1, resp)
    \/ \E resp \in CmdResponses : BackupDone(1, resp)

SpecCmds == InitCmds /\ [][NextCmds]_vars

(***************************************************************************)
(* The rate cache on its own: /spending-summary calls get_rates(),         *)
(* /exchange-rates and on_ready call update_rates().                       *)
(***************************************************************************)
RateCmds == { [name |-> "get_rates"], [name |-> "update_rates"] }

RateFiles ==
    { AbsentFile, CorruptFile, JsonFile(LiveRates, 0),
      JsonFile(PartialRates, 0), JsonFile(DefaultRates, BadTime) }

InitRates == \E file \in RateFiles : InitWith(file, 0)

NextRates ==
    \/ \E c \in RateCmds : Begin(1, c)
    \/ \E resp \in Responses : PrimaryDone(1, resp)
    \/ \E resp \in Responses : BackupDone(1, resp)
    \/ Tick

SpecRates == InitRates /\ [][NextRates]_vars

(***************************************************************************)
(* Stored records while the rate cache is refreshed: records are entered   *)
(* and edited, and get_rates() / update_rates() run between them as the    *)
(* snapshot ages.                                                          *)
(***************************************************************************)
SnapshotAdds ==
    { AddCmd("Beijing", "Food", Jan09, Num(100), "GBP", "Sunil"),
      AddCmd("Shanghai", "Food", Jan10, Num(100), "RMB", "Couple") }

SnapshotIds == {1, 2}

SnapshotEdits ==
    { EditCmd(id, a[1], a[2], a[3], None, None) :
        id \in SnapshotIds,
        a \in { <<Num(50), "GBP", None>>, <<NoAmount, None, "Shirin">> } }

SnapshotResponses == {Ok200(LiveRates), HttpError}

\* The bot starts StaleHours hours after time 0, on a rate file that is
\* missing or was saved at time 0: the latter goes stale with the next hour,
\* the one hour that passes here.
InitSnapshot ==
    \E file \in {AbsentFile, JsonFile(DefaultRates, 0)} : InitWith(file, StaleHours)

NextSnapshot ==
    \/ \E c \in SnapshotAdds : data.next_id \in SnapshotIds /\ Begin(1, c)
    \/ \E c \in SnapshotEdits : Begin(1, c)
    \/ \E c \in RateCmds : Begin(1, c)
    \/ \E resp \in SnapshotResponses : PrimaryDone(1, resp)
    \/ \E resp \in SnapshotResponses : BackupDone(1, resp)
    \/ now <= StaleHours /\ Tick

SpecSnapshot == InitSnapshot /\ [][NextSnapshot]_vars

(***************************************************************************)
(* Reports by person over a store that is entered and edited; the rate     *)
(* snapshot is fresh throughout.                                           *)
(***************************************************************************)
ReportAdds ==
    { AddCmd("Beijing", "Food", Jan09, Num(100), "RMB", "Sunil"),
      AddCmd("Shanghai", "Food", Jan10, Num(60), "RMB", "Shirin"),
      AddCmd("Beijing", "Food", Feb01, Num(50), "RMB", "Couple") }

ReportIds == {1, 2}

ReportEdits ==
    { EditCmd(id, a[1], None, a[2], None, None) :
        id \in ReportIds,
        a \in { <<Num(80), None>>, <<NoAmount, "Couple">>, <<NoAmount, "Shirin">> } }

ReportCmd(name, currency, city) ==
    [name |-> name, currency |-> currency, city |-> city,
     start_date |-> NoDate, end_date |-> NoDate]

ReportScopes == { <<"RMB", NoStr>>, <<"RMB", "Beijing">>, <<"GBP", NoStr>> }

NextReports ==
    \/ \E c \in ReportAdds : data.next_id \in ReportIds /\ Begin(1, c)
    \/ \E c \in ReportEdits : Begin(1, c)
    \/ \E s \in ReportScopes : Begin(1, ReportCmd("summary", s[1], s[2]))
    \/ \E s \in ReportScopes : ChartSpending(ReportCmd("chart", s[1], s[2]))

SpecReports == InitStore /\ [][NextReports]_vars

(***************************************************************************)
(* Two command handlers at once on the event loop: a handler suspended in  *)
(* fetch_live_rates() lets the other one run.                              *)
(***************************************************************************)
ConcurrentCmds ==
    { [name |-> "get_rates"], [name |-> "exchange_rates"],
      AddCmd("Beijing", "Food", Jan09, Num(100), "GBP", "Sunil") }

ConcurrentIds == {1}

ConcurrentResponses == {Ok200(LiveRates), Ok200(PartialRates), HttpError}

\* The bot starts StaleHours hours after time 0, on a rate file that is
\* missing or was saved at time 0, and one more hour passes.
InitConcurrent ==
    \E file \in {AbsentFile, JsonFile(DefaultRates, 0)} : InitWith(file, StaleHours)

NextConcurrent ==
    \/ \E p \in Procs, c \in ConcurrentCmds :
          (c.name = "add" => data.next_id \in ConcurrentIds) /\ Begin(p, c)
    \/ \E p \in Procs, resp \in ConcurrentResponses : PrimaryDone(p, resp)
    \/ \E p \in Procs, resp \in ConcurrentResponses : BackupDone(p, resp)
    \/ \E id \in ConcurrentIds : DbDelete(id)
    \/ now <= StaleHours /\ Tick

SpecConcurrent == InitConcurrent /\ [][NextConcurrent]_vars

(***************************************************************************)
(* The ledger under all the operations that write ids or the counter.      *)
(***************************************************************************)
LedgerIds == {1, 2}

NextLedger ==
    \/ data.next_id \in LedgerIds /\ DbGetNextId
    \/ \E c \in DurableAdds : data.next_id \in LedgerIds /\ Begin(1, c)
    \/ \E id \in LedgerIds, u \in StoreUpdates : DbUpdate(id, u)
    \/ \E id \in LedgerIds : DbDelete(id)
    \/ DbExport
    \/ DbClear
    \/ DbImport

SpecLedger == InitStore /\ [][NextLedger]_vars

(***************************************************************************)
(* Two /edit-expense commands on one record: the one that gives an amount  *)
(* is suspended in get_rates() while the other runs.                       *)
(***************************************************************************)
EditedIds == {1}

InterleavedAdds == { AddCmd("Beijing", "Food", Jan09, Num(100), "GBP", "Sunil") }

InterleavedEdits ==
    { EditCmd(id, a[1], None, a[2], None, None) :
        id \in EditedIds,
        a \in { <<Num(50), None>>, <<NoAmount, "Couple">>, <<NoAmount, "Shirin">> } }

InterleavedResponses == {Ok200(LiveRates), Ok200(PartialRates), HttpError}

\* The bot starts on a rate file saved more than StaleHours hours before.
InitInterleaved == InitWith(JsonFile(DefaultRates, 0), StaleHours + 1)

NextInterleaved ==
    \/ \E p \in Procs, c \in InterleavedAdds :
          data.next_id \in EditedIds /\ Begin(p, c)
    \/ \E p \in Procs, c \in InterleavedEdits : Begin(p, c)
    \/ \E p \in Procs, resp \in InterleavedResponses : PrimaryDone(p, resp)
    \/ \E p \in Procs, resp \in InterleavedResponses : BackupDone(p, resp)

SpecInterleaved == InitInterleaved /\ [][NextInterleaved]_vars

(***************************************************************************)
(* get_rates() and update_rates() against sources that answer, fail or     *)
(* time out.  A request handed to the executor ends: with a response, or   *)
(* with an exception once its timeout has passed.                          *)
(***************************************************************************)
ReturnResponses == {Ok200(LiveRates), HttpError, Timeout}

NextReturns ==
    \/ \E p \in Procs, c \in RateCmds : Begin(p, c)
    \/ \E p \in Procs, resp \in ReturnResponses : PrimaryDone(p, resp)
    \/ \E p \in Procs, resp \in ReturnResponses : BackupDone(p, resp)
    \/ now <= StaleHours /\ Tick

RequestsEnd ==
    \A p \in Procs :
        /\ WF_vars(\E resp \in ReturnResponses : PrimaryDone(p, resp))
        /\ WF_vars(\E resp \in ReturnResponses : BackupDone(p, resp))

SpecReturns == InitConcurrent /\ [][NextReturns]_vars /\ RequestsEnd

(***************************************************************************)
(* Properties of the store.                                                *)
(***************************************************************************)

\* C1: under next_id, add, update and delete alone, the values get_next_id
\* returns are strictly increasing, and every value returned so far (so every
\* id a delete can free) lies below the counter, which is the next value
\* returned.
C1_NextIdNeverRepeats ==
    /\ \A i, j \in 1..Len(issued) : i < j => issued[i] < issued[j]
    /\ \A i \in 1..Len(issued) : issued[i] < data.next_id
    /\ \A i \in 1..Len(data.expenses) : data.expenses[i].id < data.next_id

C1_Witness ==
    /\ last.op = "delete" /\ last.ok
    /\ Len(issued) >= 2
    /\ \E i \in 1..Len(issued) : issued[i] = last.id

\* C3: right after add(record), with the id next_id gave, get_by_id(id) is
\* the record that was passed in, whatever the store held before.
C3_AddThenGet ==
    (last.op = "add" /\ last.ok) =>
        /\ get_expense_by_id(data, last.id) = last.expense
        /\ last.expense.id = last.id

C3_Witness ==
    /\ last.op = "add" /\ last.ok
    /\ Len(data.expenses) >= 2
    /\ data.expenses[1].city # last.expense.city

\* C4: delete(id) returns true exactly when a record has that id; after a
\* true, get_by_id(id) finds nothing and another delete(id) returns false;
\* after a false the store is as it was.
C4_Delete ==
    [][ last'.op = "delete" =>
          LET id == last'.id
          IN  /\ last'.ok = (Matches(data, id) # {})
              /\ last'.ok => /\ get_expense_by_id(data', id) = NoExpense
                             /\ ~ delete_expense(data', id).ret
              /\ ~ last'.ok => data' = data
      ]_vars

C4_Witness ==
    /\ last.op = "delete" /\ last.ok
    /\ Len(data.expenses) >= 1

\* C5: list returns exactly the stored records with
\* date_from <= date <= date_to (string order, each bound optional) that
\* match the city and category given; with date_from = date_to = D exactly
\* those dated D.
InFilter(e, f) ==
    /\ f.city = NoStr \/ e.city = f.city
    /\ f.category = NoStr \/ e.category = f.category
    /\ f.start_date = NoDate \/ StrLeq(f.start_date, e.date)
    /\ f.end_date = NoDate \/ StrLeq(e.date, f.end_date)

C5_ListExact ==
    last.op = "list" =>
        LET f == last.filters
            ret == last.ret
            want == {i \in 1..Len(data.expenses) : InFilter(data.expenses[i], f)}
        IN  /\ Len(ret) = Cardinality(want)
            /\ \A i \in want : \E j \in 1..Len(ret) : ret[j] = data.expenses[i]
            /\ \A j \in 1..Len(ret) : \E i \in want : ret[j] = data.expenses[i]
            /\ (f.start_date # NoDate /\ f.start_date = f.end_date) =>
                  /\ \A j \in 1..Len(ret) : ret[j].date = f.start_date
                  /\ Len(ret) = Cardinality({i \in 1..Len(data.expenses) :
                                    data.expenses[i].date = f.start_date
                                    /\ InFilter(data.expenses[i],
                                          Filter(f.city, f.category, NoDate, NoDate))})

C5_Witness ==
    /\ last.op = "list"
    /\ last.filters.start_date = Jan10 /\ last.filters.end_date = Jan10
    /\ Len(last.ret) >= 1
    /\ Len(last.ret) < Len(data.expenses)

\* C6: export(), then clear(), then import of what export() returned leaves
\* the store with the records (order and values) and the next_id it had
\* when export() was called.
C6_RoundTrip ==
    (last.op = "import" /\ last.round_trip) =>
        /\ last.ok
        /\ data.expenses = last.saved.expenses
        /\ data.next_id = last.saved.next_id

C6_Witness ==
    /\ last.op = "import" /\ last.round_trip
    /\ Len(data.expenses) >= 2
    /\ data.next_id > Len(data.expenses) + 1

\* C26: list returns the matching records by date descending, and records
\* of equal date in the order in which they stand in the store (insertion
\* order); the same filters on the same store give the same sequence.
Position(id) == FirstMatch(data, id)

C26_ListOrder ==
    last.op = "list" =>
        LET ret == last.ret
            f == last.filters
        IN  /\ \A j, k \in 1..Len(ret) : j < k =>
                  /\ StrLeq(ret[k].date, ret[j].date)
                  /\ ret[j].date = ret[k].date =>
                        Position(ret[j].id) < Position(ret[k].id)
            /\ get_expenses(data, f.city, f.category, f.start_date, f.end_date) = ret

C26_Witness ==
    /\ last.op = "list"
    /\ Len(last.ret) >= 3
    /\ last.ret[2].date = last.ret[3].date
    /\ last.ret[1].date # last.ret[2].date
    /\ Position(last.ret[1].id) > Position(last.ret[2].id)

\* C28: after clear() the store has no records and the counter is 1, so the
\* next get_next_id() returns 1, whatever the counter was before.
C28_ClearResets ==
    last.op = "clear" =>
        /\ last.ok
        /\ data.expenses = <<>>
        /\ data.next_id = 1
        /\ get_next_id(data).ret = 1

C28_Witness ==
    /\ last.op = "clear"
    /\ last.counter > 2
    /\ data = EmptyData

\* C16: on a store with no records, newly created or just cleared,
\* get_database_stats() returns normally with total_expenses = 0 and empty
\* category and city breakdowns.
C16_StatsOnEmpty ==
    (last.op = "stats" /\ data.expenses = <<>>) =>
        /\ "raised" \notin DOMAIN last.ret
        /\ last.ret.total_expenses = 0
        /\ DOMAIN last.ret.categories = {}
        /\ DOMAIN last.ret.cities = {}

C16_Witness ==
    /\ last.op = "stats" /\ last.after_clear
    /\ data.expenses = <<>>
    /\ last.ret.total_expenses = 0
    /\ last.ret.total_amount_rmb = Zero

\* C27: remove_document(id, filename) takes out of the record's document
\* list the first entry with that filename and no other: the entries before
\* and after it, later ones of the same filename included, stay in order.
RECURSIVE RemoveFirst(_, _)
RemoveFirst(docs, filename) ==
    IF docs = <<>> THEN <<>>
    ELSE IF Head(docs).filename = filename THEN Tail(docs)
    ELSE <<Head(docs)>> \o RemoveFirst(Tail(docs), filename)

C27_RemovesFirstOnly ==
    [][ ( /\ last'.op = "remove_document" /\ last'.ok
          /\ <<last, data>>' # <<last, data>> )
        => get_expense_by_id(data', last'.id).documents =
              RemoveFirst(get_expense_by_id(data, last'.id).documents,
                          last'.filename)
      ]_vars

(***************************************************************************)
(* Properties of the store and its file.                                   *)
(***************************************************************************)

\* C11: update(id, fields) with an id no record has returns false and
\* changes nothing: the records, next_id and the ledger file are as before,
\* whatever the disk would have done with a write.
C11_UpdateMissing ==
    [][ (last'.op = "update" /\ Matches(data, last'.id) = {})
        => /\ ~ last'.ok
           /\ data' = data
           /\ db_file' = db_file
      ]_vars

C11_Witness ==
    /\ last.op = "update" /\ ~ last.ok
    /\ Matches(data, last.id) = {}
    /\ data.expenses # <<>>
    /\ disk = "dump_fails"
    /\ db_file = JsonLedger(data)

\* C12: an add whose write to the ledger file fails reports failure and
\* leaves the records in memory as they were before the add.
C12_AddRollsBack ==
    [][ (last'.op = "add" /\ last' # last /\ disk # "ok")
        => /\ ~ last'.ok
           /\ data'.expenses = data.expenses
      ]_vars

\* C13: an add, update or delete whose write fails leaves the ledger file
\* holding the document it held before.
C13_FileIntactOnFailure ==
    [][ (last' # last /\ last'.op \in {"add", "update", "delete"} /\ disk # "ok")
        => db_file' = db_file
      ]_vars

\* C14: once an add, update, delete, add_document or remove_document has
\* returned true, the ledger file holds the store as it is in memory, and a
\* store constructed from the file has the same records and next_id.
Mutations == {"add", "edit", "update", "delete", "add_document", "remove_document"}

C14_FileEqualsMemory ==
    (last.op \in Mutations /\ last.ok) =>
        /\ db_file = JsonLedger(data)
        /\ load_data(db_file, disk).data = data

(***************************************************************************)
(* Properties of the add-expense and edit-expense commands.                *)
(***************************************************************************)

\* C2: after any sequence of add-expense and edit-expense commands every
\* stored record has sunil_rmb + shirin_rmb = total_rmb, whoever paid.
C2_SharesSumToTotal ==
    \A i \in 1..Len(data.expenses) :
        LET e == data.expenses[i]
        IN  RAdd(e.sunil_rmb, e.shirin_rmb) = e.total_rmb

C2_Witness ==
    /\ last.op = "edit" /\ last.ok
    /\ \E i \in 1..Len(data.expenses) :
          /\ data.expenses[i].payer = "Couple"
          /\ data.expenses[i].sunil_rmb.d # 1
    /\ \E i \in 1..Len(data.expenses) : data.expenses[i].payer = "Shirin"

\* C15: an add of amount 100 in a currency X other than RMB, with
\* rates[X] = 0.5, stores total_rmb = 200 (amount / rates[X] for any held
\* non-zero rate), and for payer Couple sunil_rmb = shirin_rmb = 100; an add
\* in RMB stores total_rmb equal to the amount.
C15_Conversion ==
    (last.op = "add" /\ last.ok) =>
        LET e == last.expense
            r == last.gr.ret
            X == e.original_currency
        IN  /\ (X \in RateCodes /\ X \in DOMAIN r /\ r[X].n # 0) =>
                    e.total_rmb = RDiv(e.original_amount, r[X])
            /\ (X \in RateCodes /\ X \in DOMAIN r /\ r[X] = Rat(1, 2)
                    /\ e.original_amount = Num(100)) =>
                    /\ e.total_rmb = Num(200)
                    /\ e.payer = "Couple" =>
                          e.sunil_rmb = Num(100) /\ e.shirin_rmb = Num(100)
            /\ X = "RMB" => e.total_rmb = e.original_amount

C15_Witness ==
    /\ last.op = "add" /\ last.ok
    /\ last.expense.original_currency = "GBP"
    /\ last.expense.original_amount = Num(100)
    /\ last.gr.ret["GBP"] = Rat(1, 2)
    /\ last.expense.payer = "Couple"
    /\ last.expense.total_rmb = Num(200)
    /\ get_expense_by_id(data, last.id).sunil_rmb = Num(100)

\* C20: an add or an edit that enters an amount in a currency whose held
\* rate is exactly zero succeeds, and the stored total_rmb is the amount
\* times the fallback literal for that currency.
EnteredAmount ==
    IF last.op = "add" THEN last.expense.original_amount ELSE last.cmd.amount

EnteredCurrency ==
    IF last.op = "add" THEN last.expense.original_currency
    ELSE IF last.cmd.currency # None THEN last.cmd.currency
    ELSE get_expense_by_id(data, last.id).original_currency

C20_ZeroRateFallback ==
    ( /\ last.op \in {"add", "edit"}
      /\ "gr" \in DOMAIN last
      /\ EnteredAmount # NoAmount
      /\ EnteredCurrency \in RateCodes \cap DOMAIN last.gr.ret
      /\ last.gr.ret[EnteredCurrency] = Zero )
    => /\ last.ok
       /\ get_expense_by_id(data, last.id).total_rmb =
              RMul(EnteredAmount, FallbackToRmb(EnteredCurrency))

\* split and to_home of sections 4.3: what the four derived fields of a
\* record are for a base total, a payer and a rate snapshot.
SplitA(total, payer) ==
    CASE payer = "Couple" -> RDiv(total, Num(2))
      [] payer = "Sunil" -> total
      [] OTHER -> Zero

SplitB(total, payer) ==
    CASE payer = "Couple" -> RDiv(total, Num(2))
      [] payer = "Shirin" -> total
      [] OTHER -> Zero

ToHome(share, r, code) == RMul(share, RGet(r, code, DefaultRate(code)))

EditSupplies(c) == c.amount # NoAmount \/ c.currency # None \/ c.payer # None

\* C9: after an edit that supplies any of amount, currency or payer, the
\* four derived fields of the record are split / to_home of its total_rmb
\* and payer under the rates held at the call.
C9_EditRecomputesShares ==
    (last.op = "edit" /\ last.ok /\ EditSupplies(last.cmd)) =>
        LET e == get_expense_by_id(data, last.id)
            r == last.gr.ret
        IN  /\ e.sunil_rmb = SplitA(e.total_rmb, e.payer)
            /\ e.shirin_rmb = SplitB(e.total_rmb, e.payer)
            /\ e.sunil_gbp = ToHome(SplitA(e.total_rmb, e.payer), r, "GBP")
            /\ e.shirin_aed = ToHome(SplitB(e.total_rmb, e.payer), r, "AED")

\* C10: an edit to amount 50 in RMB of a record Sunil paid gives
\* sunil_rmb = 50 and shirin_rmb = 0 and leaves the record's other input
\* fields, and every other record, as they were.
Untouched == {"id", "city", "activity", "category", "date", "payer", "notes",
              "documents", "created_at"}

C10_EditFrame ==
    [][ ( /\ last'.op = "edit" /\ last' # last /\ last'.ok
          /\ last'.cmd.amount = Num(50) /\ last'.cmd.currency = "RMB"
          /\ PlainUpdates(last'.cmd) = <<>>
          /\ get_expense_by_id(data, last'.id).payer = "Sunil" )
        => LET old == get_expense_by_id(data, last'.id)
               new == get_expense_by_id(data', last'.id)
           IN  /\ new.sunil_rmb = Num(50)
               /\ new.shirin_rmb = Zero
               /\ \A k \in Untouched : new[k] = old[k]
               /\ data'.next_id = data.next_id
               /\ Len(data'.expenses) = Len(data.expenses)
               /\ \A i \in 1..Len(data.expenses) :
                     data.expenses[i].id # last'.id =>
                         data'.expenses[i] = data.expenses[i]
      ]_vars

C10_Witness ==
    /\ last.op = "edit" /\ last.ok
    /\ last.cmd.amount = Num(50) /\ last.cmd.currency = "RMB"
    /\ PlainUpdates(last.cmd) = <<>>
    /\ Len(data.expenses) >= 2
    /\ LET e == get_expense_by_id(data, last.id)
       IN  /\ e.payer = "Sunil"
           /\ e.sunil_rmb = Num(50)
           /\ e.city = "Shanghai" /\ e.notes = "late"

(***************************************************************************)
(* Properties of the rate cache.                                           *)
(***************************************************************************)

\* C7: a get_rates() call that starts with last_updated more than StaleHours
\* old makes exactly one fetch_live_rates() attempt; if both sources fail in
\* it, the call returns the mapping held when it started, and the held
\* snapshot is unchanged.
OlderThanThreshold(gr) == gr.lu >= 0 /\ gr.at - gr.lu > StaleHours

C17_Initialize ==
    last.op = "init" =>
        IF last.file.kind = "json"
        THEN /\ rates = last.file.rates
             /\ last_updated = last.file.last_updated
        ELSE /\ rates = DefaultRates
             /\ last_updated \in 0..MaxTime
             /\ rates_file = JsonFile(DefaultRates, last_updated)

WellFormed(rates_data) ==
    /\ RateCodes \subseteq DOMAIN rates_data
    /\ \A code \in RateCodes : rates_data[code].n > 0

C19_PartialAnswerIgnored ==
    ("gr" \in DOMAIN last /\ last.gr.stale /\ last.gr.answer # NoAnswer
        /\ ~ WellFormed(last.gr.answer)) =>
        /\ rates = last.gr.before
        /\ last_updated = last.gr.lu

\* C21: update_rates() returns true exactly when it found the snapshot
\* stale and tried a fetch, whatever the fetch gave, and false when the
\* snapshot was fresh and no fetch was made.
C21_ReturnsAttempted ==
    last.op = "update_rates" =>
        (last.gr.success <=> (last.gr.stale /\ last.gr.attempts = 1))

\* C22 as stated: a get_rates() / update_rates() call tries a fetch if and
\* only if last_updated is unset or more than StaleHours before the time of
\* the call.
UnsetOrOld(gr) == gr.lu = NoTime \/ OlderThanThreshold(gr)

InFlight(p) == pc[p] \in {"primary", "backup"}

C23_RefreshCycle ==
    [][ /\ (InFlight(1) /\ pc'[1] = "idle") =>
              IF last'.gr.success
              THEN last_updated' = now
              ELSE last_updated' = last_updated
        /\ (pc[1] = "idle" /\ now' = now /\ "gr" \in DOMAIN last /\ last.gr.stale) =>
              IF last.gr.success
              THEN (now - last_updated <= StaleHours) =>
                      (pc'[1] = "idle" /\ last'.gr.attempts = 0)
              ELSE pc'[1] = "primary"
      ]_vars

C23_Witness ==
    /\ last.op = "get_rates"
    /\ ~ last.gr.stale
    /\ last.gr.lu > 0
    /\ last.gr.at > last.gr.lu
    /\ rates = LiveRates

(***************************************************************************)
(* Properties of stored amounts while rates change.                        *)
(***************************************************************************)
\* The converted total of a record and its four shares.
Amounts(e) ==
    <<e.total_rmb, e.sunil_rmb, e.shirin_rmb, e.sunil_gbp, e.shirin_aed>>

\* C24: no step changes total_rmb or one of the four shares of a stored
\* record, unless the step is an /edit-expense of that record's id that
\* updated it; in particular a get_rates() or update_rates() call, fresh,
\* refreshed or failed, leaves every stored record as it was.
C24_SnapshotFrame ==
    [][ /\ Len(data'.expenses) >= Len(data.expenses)
        /\ \A i \in 1..Len(data.expenses) :
              \/ Amounts(data'.expenses[i]) = Amounts(data.expenses[i])
              \/ /\ last'.op = "edit"
                 /\ last'.ok
                 /\ last'.why = "updated"
                 /\ last'.id = data.expenses[i].id
                 /\ \/ cmd[1].name = "edit"
                    \/ pc[1] = "idle"
        /\ (last'.op \in {"get_rates", "update_rates"} \/ last' = last) =>
              data'.expenses = data.expenses
      ]_vars

\* A refresh installed new rates after two records were stored, and the
\* first record still carries the share computed at the rate of its entry.
C24_Witness ==
    /\ last.op \in {"get_rates", "update_rates"}
    /\ last.gr.success
    /\ last.gr.attempts = 1
    /\ rates # last.gr.before
    /\ Len(data.expenses) = 2
    /\ data.expenses[1].sunil_gbp #
          RMul(data.expenses[1].sunil_rmb, RGet(rates, "GBP", DefaultRate("GBP")))

(***************************************************************************)
(* Properties of the reports by person.                                    *)
(***************************************************************************)
\* The sum of total_rmb over the records of a payer value.
PaidBy(expenses, payer) ==
    LET ByPayer(e) == e.payer = payer
    IN  RSum(Column(SelectSeq(expenses, ByPayer), "total_rmb"))

\* A party's total: all of what it paid alone and half of what was paid
\* jointly.
Attributed(expenses, party) ==
    RAdd(PaidBy(expenses, party), RDiv(PaidBy(expenses, "Couple"), Num(2)))

ChartShare(ret, name) ==
    IF name \in DOMAIN ret.person_totals THEN ret.person_totals[name] ELSE Zero

\* C25: a report by person in RMB over a non-empty record sequence gives
\* Sunil the total_rmb of the records he paid alone plus half of the jointly
\* paid ones, gives Shirin hers likewise, and the two add up to the sum of
\* total_rmb; this for the summary and for the chart.
C25_PersonTotals ==
    /\ (last.op = "summary" /\ last.ok /\ last.currency = "RMB") =>
          /\ last.ret.sunil = Attributed(last.expenses, "Sunil")
          /\ last.ret.shirin = Attributed(last.expenses, "Shirin")
          /\ RAdd(last.ret.sunil, last.ret.shirin) =
                RSum(Column(last.expenses, "total_rmb"))
    /\ (last.op = "chart" /\ last.ok /\ last.currency = "RMB") =>
          /\ ~ last.ret.raised
          /\ ChartShare(last.ret, "Bubba") = Attributed(last.expenses, "Sunil")
          /\ RAdd(ChartShare(last.ret, "Shir"), ChartShare(last.ret, "Shirin")) =
                Attributed(last.expenses, "Shirin")

\* The summary alone.
C25_SummaryTotals ==
    (last.op = "summary" /\ last.ok /\ last.currency = "RMB") =>
          /\ last.ret.sunil = Attributed(last.expenses, "Sunil")
          /\ last.ret.shirin = Attributed(last.expenses, "Shirin")

(***************************************************************************)
(* Properties of concurrent command handlers.                              *)
(***************************************************************************)
\* The handlers whose command has started and not finished: they are inside
\* fetch_live_rates(), on behalf of an add, an edit or a refresh.
Started == {p \in Procs : pc[p] # "idle"}

\* C29: at no time have two of the mutating operations started and not
\* finished; and no record is added, updated or deleted by one handler
\* while another is between its start and its end.
C29_OneAtATime == Cardinality(Started) <= 1

C29_NoMutationMeanwhile ==
    [][data' # data => \A p \in Started : pc'[p] = "idle"]_vars

\* C30: the cache changes in one step only, which replaces rates by the
\* complete mapping made of the answer and stamps last_updated with the time
\* of that step; whoever reads the cache, with a fetch in flight or not,
\* gets the pair as it was before that step or the pair as it is after it.
C30_AtomicSwap ==
    [][ /\ \/ rates' = rates /\ last_updated' = last_updated
           \/ \E p \in Procs :
                 /\ InFlight(p)
                 /\ pc'[p] = "idle"
                 /\ last'.gr.success
                 /\ rates' = ExtractRates(last'.gr.answer, rates)
                 /\ DOMAIN rates' = RateCodes
                 /\ last_updated' = now
        /\ (last'.op = "exchange_rates" /\ last' # last) =>
              /\ last'.ret = get_rate_info(rates', last_updated')
              /\ \/ last'.ret = get_rate_info(rates, last_updated)
                 \/ /\ last'.gr.success
                    /\ last'.gr.stale
                    /\ last'.ret = get_rate_info(
                           ExtractRates(last'.gr.answer, rates), now)
      ]_vars

\* /exchange-rates has read the cache while the other handler's fetch is in
\* flight, and what it read is a snapshot installed after that fetch began.
C30_Witness ==
    /\ last.op = "exchange_rates"
    /\ \E q \in Procs :
          /\ InFlight(q)
          /\ last.ret.rates # loc[q].before
          /\ last.ret.last_updated # loc[q].lu
          /\ last.ret.last_updated > loc[q].at
    /\ last.ret = get_rate_info(rates, last_updated)

(***************************************************************************)
(* Properties of the amounts accepted.                                     *)
(***************************************************************************)
\* C32: every stored record has original_amount > 0, and an /add-expense or
\* /edit-expense given an amount <= 0 is answered with a refusal and leaves
\* the records and next_id as they were.
C32_PositiveAmounts ==
    [][ /\ \A i \in 1..Len(data'.expenses) :
              ~ RLeq(data'.expenses[i].original_amount, Zero)
        /\ ( /\ last' # last
             /\ last'.op \in {"add", "edit"}
             /\ "cmd" \in DOMAIN last'
             /\ last'.cmd.amount # NoAmount
             /\ RLeq(last'.cmd.amount, Zero) ) =>
                 /\ ~ last'.ok
                 /\ data' = data
                 /\ pc' = pc
      ]_vars

\* An edit of a stored record with a negative amount has been refused.
C32_Witness ==
    /\ last.op = "edit"
    /\ ~ last.ok
    /\ last.why = "amount"
    /\ last.cmd.amount.n < 0
    /\ get_expense_by_id(data, last.cmd.expense_id) # NoExpense

\* C35: delete_document returns True exactly when it took an entry of that
\* filename off a record; when the record holds no such document, or no
\* record has the id, it returns False and the store is as it was.
C35_TrueOnlyIfRemoved ==
    [][ (last'.op = "remove_document" /\ last' # last) =>
            /\ last'.ok <=> (data' # data)
            /\ ~ last'.ok => (data' = data /\ db_file' = db_file)
      ]_vars

\* C34: what export_data returned stays as it was at the export, whatever
\* the store does afterwards, until the next export.
C34_ExportIsSnapshot ==
    [][exported # NoExport => (exported' = exported \/ last'.op = "export")]_vars

\* C36: every stored record has an id below next_id, and no two stored
\* records have the same id.
C36_IdsBelowCounter ==
    /\ \A i \in 1..Len(data.expenses) : data.expenses[i].id < data.next_id
    /\ \A i, j \in 1..Len(data.expenses) :
          data.expenses[i].id = data.expenses[j].id => i = j

\* A backup taken with two records was imported over a store that had been
\* cleared and had issued ids again.
C36_Witness ==
    /\ last.op = "import"
    /\ last.ok
    /\ ~ last.round_trip
    /\ Len(data.expenses) = 2
    /\ data.next_id > 2

\* The shares of a record agree with its payer.
SharesFitPayer(e) ==
    CASE e.payer = "Sunil" -> e.shirin_rmb = Zero
      [] e.payer = "Shirin" -> e.sunil_rmb = Zero
      [] OTHER -> e.sunil_rmb = e.shirin_rmb

\* Handler p ends an /edit-expense that gave an amount, and the payer of its
\* record was changed by another command while it was suspended.
EndsInterleaved(p) ==
    /\ InFlight(p)
    /\ pc'[p] = "idle"
    /\ cmd[p].name = "edit"
    /\ Matches(data, cmd[p].expense_id) # {}
    /\ Fetched(loc[p]).payer # loc[p].expense.payer

\* C33: when an edit of the payer has run while an edit of the amount of the
\* same record was suspended in get_rates(), the record stored once both
\* have ended has shares that agree with its payer.
C33_InterleavedEdits ==
    [][ \A p \in Procs :
           (EndsInterleaved(p) /\ \A q \in Procs : pc'[q] = "idle") =>
               SharesFitPayer(get_expense_by_id(data', cmd[p].expense_id))
      ]_vars

\* The same, for the amount edits that store their update.
C33_InterleavedStored ==
    [][ \A p \in Procs :
           (EndsInterleaved(p) /\ last'.ok) =>
               SharesFitPayer(get_expense_by_id(data', cmd[p].expense_id))
      ]_vars

(***************************************************************************)
(* Termination of the rate calls.                                          *)
(***************************************************************************)
\* The sources one call has contacted: none, the primary, or the primary
\* and then the backup.
ContactedOnce(contacted) ==
    contacted \in {<<>>, <<"primary">>, <<"primary", "backup">>}

CallsBounded ==
    /\ \A p \in Procs : InFlight(p) => ContactedOnce(loc[p].contacted)
    /\ "gr" \in DOMAIN last =>
          /\ ContactedOnce(last.gr.contacted)
          /\ last.gr.attempts <= 1
          /\ Len(last.gr.oks) = Len(last.gr.contacted)
          /\ last.gr.oks = <<FALSE, FALSE>> =>
                (~ last.gr.success /\ last.gr.ret = rates)

\* C31: a get_rates() or update_rates() call that has started a fetch
\* returns, whether the sources answer, fail or time out; a source that
\* fails or times out is not contacted again by that call, and when both
\* have, the call returns the mapping held, as a failure.
C31_CallReturns ==
    /\ []CallsBounded
    /\ \A p \in Procs : InFlight(p) ~> (pc[p] = "idle")

\* A call has returned after both of its requests failed or timed out.
C31_Witness ==
    /\ last.op \in {"get_rates", "update_rates"}
    /\ last.gr.contacted = <<"primary", "backup">>
    /\ last.gr.oks = <<FALSE, FALSE>>
    /\ ~ last.gr.success
    /\ \A p \in Procs : pc[p] = "idle"

\* C8: once the rate cache is constructed, whatever the rate file held and
\* whatever refreshes followed, rates has an entry for GBP, AED, USD and EUR.
C8_AllCodesHeld == RateCodes \subseteq DOMAIN rates

====
